---- MODULE Spec2Model ----
(***************************************************************************)
(* A model of yt's FieldInfoContainer (yt/fields/field_info_container.py): *)
(* the mapping from field identity to field definition, its alias map, its *)
(* fallback chain and its dependency-validation pass.                      *)
(*                                                                         *)
(* A field identity is a sequence: <<category, name>> for a tuple key and  *)
(* <<name>> for a bare (non-tuple) name.  A registry's local map is a      *)
(* Python dict, modelled as a sequence of entries [k, v] in insertion      *)
(* order.  chain[1] is the dataset's registry, chain[i+1] is the fallback  *)
(* of chain[i]; the last registry of the chain has fallback None.          *)
(***************************************************************************)
EXTENDS Integers, Sequences, FiniteSets, TLC

VARIABLES chain, field_aliases, field_list, show_field_errors,
          field_test, derived_field_list, ret, nops,
          known_other_fields, field_units, curvilinear,
          field_plugins, field_dependencies, pending, fluid_types,
          known_particle_fields, sph_ptypes

vars == <<chain, field_aliases, field_list, show_field_errors,
          field_test, derived_field_list, ret, nops,
          known_other_fields, field_units, curvilinear,
          field_plugins, field_dependencies, pending, fluid_types,
          known_particle_fields, sph_ptypes>>

\* what the dataset and the frontend supply and no operation changes: the
\* catalog of known fluid fields, ds.field_units, the geometry, the
\* registered population routines, ds.fluid_types, the catalog of known
\* particle fields and whether ds has _sph_ptypes
config == <<known_other_fields, field_units, curvilinear, field_plugins,
            fluid_types, known_particle_fields, sph_ptypes>>

(* ----------------------------- bounds ---------------------------------- *)

\* number of operations applied after construction
MaxOps == 3
\* longest chain of registries (the registry and its fallbacks)
MaxRegs == 2
\* longest explicit fields_to_check list handed to check_derived_fields
MaxCheck == 2
\* largest on-disk field list of a dataset under construction
MaxFields == 4
\* most population routines registered in field_plugins
MaxPlugins == 2

(* --------------------------- identities -------------------------------- *)

NoKey == <<>>
BareA == <<"a">>
GasA == <<"gas", "a">>
AllA == <<"all", "a">>
GasD == <<"gas", "d">>
GasM == <<"gas", "m">>
GasE == <<"gas", "e">>
GasV1 == <<"gas", "v1">>
GasV2 == <<"gas", "v2">>
GasV3 == <<"gas", "v3">>
IoD == <<"io", "d">>

\* the identities that get registered, aliased, looked up and validated
Keys == {BareA, GasA, AllA, GasD}

\* ds.default_fluid_type of the dataset
default_fluid_type == "gas"

\* isinstance(name, tuple)
IsTuple(name) == Len(name) = 2

\* Python's order on the strings the model uses (code-point order)
StrRank(s) ==
  CASE s = "?" -> 0
    [] s = "a" -> 1
    [] s = "all" -> 2
    [] s = "all_mass" -> 3
    [] s = "d" -> 4
    [] s = "density" -> 5
    [] s = "deposit" -> 6
    [] s = "dx" -> 7
    [] s = "e" -> 8
    [] s = "enzo" -> 9
    [] s = "foo_phi" -> 10
    [] s = "foo_r" -> 11
    [] s = "foo_theta" -> 12
    [] s = "foo_x" -> 13
    [] s = "foo_y" -> 14
    [] s = "foo_z" -> 15
    [] s = "gas" -> 16
    [] s = "index" -> 17
    [] s = "io" -> 18
    [] s = "io_mass" -> 19
    [] s = "m" -> 20
    [] s = "mass" -> 21
    [] s = "metallicity" -> 22
    [] s = "ones" -> 23
    [] s = "pa" -> 24
    [] s = "particle_mass" -> 25
    [] s = "particle_ones" -> 26
    [] s = "particle_position" -> 27
    [] s = "particle_position_x" -> 28
    [] s = "pb" -> 29
    [] s = "pc" -> 30
    [] s = "pd" -> 31
    [] s = "pe" -> 32
    [] s = "position" -> 33
    [] s = "temperature" -> 34
    [] s = "v1" -> 35
    [] s = "v2" -> 36
    [] s = "v3" -> 37
    [] s = "x" -> 38
    [] OTHER -> 39

\* a key that puts bare names after every category
tupleize_sentinel_last(inp) == IF IsTuple(inp) THEN inp ELSE <<"~", inp[1]>>

\* tupleize: a tuple is its own key, a bare name gets the category "?"
tupleize(inp) == IF IsTuple(inp) THEN inp ELSE <<"?", inp[1]>>

\* Python's < on 2-tuples of strings
TupleLess(x, y) ==
  \/ StrRank(x[1]) < StrRank(y[1])
  \/ StrRank(x[1]) = StrRank(y[1]) /\ StrRank(x[2]) < StrRank(y[2])

\* list(sorted(S, key=tupleize)) for a set S of identities with distinct keys
RECURSIVE SortedByTupleize(_)
SortedByTupleize(S) ==
  IF S = {} THEN <<>>
  ELSE LET m == CHOOSE x \in S :
                  \A y \in S \ {x} : TupleLess(tupleize(x), tupleize(y))
       IN <<m>> \o SortedByTupleize(S \ {m})

\* set(seq)
Range(s) == {s[i] : i \in 1..Len(s)}

\* the reverse of a sequence
Reversed(seq) == [i \in 1..Len(seq) |-> seq[Len(seq) + 1 - i]]

(* ------------------------- field definitions --------------------------- *)

NullFunc == [f |-> "NullFunc", src |-> NoKey]
TranslationFunc(original_name) == [f |-> "TranslationFunc", src |-> original_name]
UserFunc(id) == [f |-> id, src |-> NoKey]

\* DerivedField(name, sampling_type, function, units=..., display_name=...)
DerivedField(name, sampling_type, function, units, display_name) ==
  [name |-> name, sampling_type |-> sampling_type, function |-> function,
   units |-> units, display_name |-> display_name]

\* the value standing for "no definition" in a failed lookup
NoDef == DerivedField(NoKey, "", [f |-> "", src |-> NoKey], "", "")

(* ------------------------ dict (local map) ----------------------------- *)

\* dict.__iter__ / dict.keys: the local keys in insertion order
DictKeys(d) == [i \in 1..Len(d) |-> d[i].k]

\* dict.__contains__
DictHas(d, key) == \E i \in 1..Len(d) : d[i].k = key

\* dict.__getitem__ on a key that is present
DictGet(d, key) == d[CHOOSE i \in 1..Len(d) : d[i].k = key].v

\* dict.__setitem__: an existing key keeps its position
DictSet(d, key, val) ==
  IF DictHas(d, key)
  THEN [i \in 1..Len(d) |-> IF d[i].k = key THEN [k |-> key, v |-> val] ELSE d[i]]
  ELSE Append(d, [k |-> key, v |-> val])

\* a dict.pop that removes nothing
DictPop_keeps(d, key) == d

\* dict.pop on a key that is present
DictPop(d, key) == SelectSeq(d, LAMBDA e : e.k # key)

(* --------------------- queries along the fallback chain ---------------- *)

\* self.fallback is None, for registry r of chain ch
FallbackIsNone(ch, r) == r = Len(ch)

\* a __contains__ that looks at the local map only
contains_local_only(ch, r, key) == DictHas(ch[r], key)

\* FieldInfoContainer.__contains__
RECURSIVE contains(_, _, _)
contains(ch, r, key) ==
  IF DictHas(ch[r], key) THEN TRUE
  ELSE IF FallbackIsNone(ch, r) THEN FALSE
  ELSE contains(ch, r + 1, key)

\* FieldInfoContainer.has_key
has_key(ch, r, key) ==
  IF contains(ch, r, key) THEN TRUE
  ELSE IF FallbackIsNone(ch, r) THEN FALSE
  ELSE contains(ch, r + 1, key)

\* FieldInfoContainer.__missing__: KeyError("No field named key") at the
\* end of the chain, else the fallback's own lookup
RECURSIVE missing(_, _, _)
missing(ch, r, key) ==
  IF FallbackIsNone(ch, r)
  THEN [err |-> "KeyError", key |-> key, val |-> NoDef]
  ELSE IF DictHas(ch[r + 1], key)
       THEN [err |-> "none", key |-> key, val |-> DictGet(ch[r + 1], key)]
       ELSE missing(ch, r + 1, key)

\* a lookup that asks the fallback chain before the local map
getitem_fallback_first(ch, r, key) ==
  IF missing(ch, r, key).err = "none" THEN missing(ch, r, key)
  ELSE IF DictHas(ch[r], key)
  THEN [err |-> "none", key |-> key, val |-> DictGet(ch[r], key)]
  ELSE missing(ch, r, key)

\* self[key]: dict.__getitem__, which calls __missing__ for an absent key
getitem(ch, r, key) ==
  IF DictHas(ch[r], key)
  THEN [err |-> "none", key |-> key, val |-> DictGet(ch[r], key)]
  ELSE missing(ch, r, key)

\* FieldInfoContainer.__iter__
RECURSIVE iter(_, _)
iter(ch, r) ==
  DictKeys(ch[r]) \o (IF FallbackIsNone(ch, r) THEN <<>> ELSE iter(ch, r + 1))

\* bool(self.fallback): None is false, and so is a dict with no local entry
FallbackTruthy(ch, r) == ~FallbackIsNone(ch, r) /\ Len(ch[r + 1]) > 0

\* FieldInfoContainer.keys: dict.keys(self) is a dict_keys view, and
\* "keys += list(...)" on it raises TypeError
keys(ch, r) ==
  IF FallbackTruthy(ch, r)
  THEN [err |-> "TypeError", val |-> <<>>]
  ELSE [err |-> "none", val |-> DictKeys(ch[r])]

(* ------------------------ registration and aliasing -------------------- *)

\* a sampling_type that is not a str (None)
NotAStr == "<None>"

\* the strings whose .lower() is "cell"
CellSpellings ==
  {"CELL", "CELl", "CElL", "CEll", "CeLL", "CeLl", "CelL", "Cell", "cELL",
   "cELl", "cElL", "cEll", "ceLL", "ceLl", "celL", "cell"}

\* the strings whose .lower() is "local"
LocalSpellings ==
  {"LOCAL", "LOCAl", "LOCaL", "LOCal", "LOcAL", "LOcAl", "LOcaL", "LOcal",
   "LoCAL", "LoCAl", "LoCaL", "LoCal", "LocAL", "LocAl", "LocaL", "Local",
   "lOCAL", "lOCAl", "lOCaL", "lOCal", "lOcAL", "lOcAl", "lOcaL", "lOcal",
   "loCAL", "loCAl", "loCaL", "loCal", "locAL", "locAl", "locaL", "local"}

\* the strings whose .lower() is "particle"
ParticleSpellings ==
  {"PARTICLE", "PARTICLe", "PARTIClE", "PARTICle", "PARTIcLE", "PARTIcLe",
   "PARTIclE", "PARTIcle", "PARTiCLE", "PARTiCLe", "PARTiClE", "PARTiCle",
   "PARTicLE", "PARTicLe", "PARTiclE", "PARTicle", "PARtICLE", "PARtICLe",
   "PARtIClE", "PARtICle", "PARtIcLE", "PARtIcLe", "PARtIclE", "PARtIcle",
   "PARtiCLE", "PARtiCLe", "PARtiClE", "PARtiCle", "PARticLE", "PARticLe",
   "PARticlE", "PARticle", "PArTICLE", "PArTICLe", "PArTIClE", "PArTICle",
   "PArTIcLE", "PArTIcLe", "PArTIclE", "PArTIcle", "PArTiCLE", "PArTiCLe",
   "PArTiClE", "PArTiCle", "PArTicLE", "PArTicLe", "PArTiclE", "PArTicle",
   "PArtICLE", "PArtICLe", "PArtIClE", "PArtICle", "PArtIcLE", "PArtIcLe",
   "PArtIclE", "PArtIcle", "PArtiCLE", "PArtiCLe", "PArtiClE", "PArtiCle",
   "PArticLE", "PArticLe", "PArticlE", "PArticle", "PaRTICLE", "PaRTICLe",
   "PaRTIClE", "PaRTICle", "PaRTIcLE", "PaRTIcLe", "PaRTIclE", "PaRTIcle",
   "PaRTiCLE", "PaRTiCLe", "PaRTiClE", "PaRTiCle", "PaRTicLE", "PaRTicLe",
   "PaRTiclE", "PaRTicle", "PaRtICLE", "PaRtICLe", "PaRtIClE", "PaRtICle",
   "PaRtIcLE", "PaRtIcLe", "PaRtIclE", "PaRtIcle", "PaRtiCLE", "PaRtiCLe",
   "PaRtiClE", "PaRtiCle", "PaRticLE", "PaRticLe", "PaRticlE", "PaRticle",
   "ParTICLE", "ParTICLe", "ParTIClE", "ParTICle", "ParTIcLE", "ParTIcLe",
   "ParTIclE", "ParTIcle", "ParTiCLE", "ParTiCLe", "ParTiClE", "ParTiCle",
   "ParTicLE", "ParTicLe", "ParTiclE", "ParTicle", "PartICLE", "PartICLe",
   "PartIClE", "PartICle", "PartIcLE", "PartIcLe", "PartIclE", "PartIcle",
   "PartiCLE", "PartiCLe", "PartiClE", "PartiCle", "ParticLE", "ParticLe",
   "ParticlE", "Particle", "pARTICLE", "pARTICLe", "pARTIClE", "pARTICle",
   "pARTIcLE", "pARTIcLe", "pARTIclE", "pARTIcle", "pARTiCLE", "pARTiCLe",
   "pARTiClE", "pARTiCle", "pARTicLE", "pARTicLe", "pARTiclE", "pARTicle",
   "pARtICLE", "pARtICLe", "pARtIClE", "pARtICle", "pARtIcLE", "pARtIcLe",
   "pARtIclE", "pARtIcle", "pARtiCLE", "pARtiCLe", "pARtiClE", "pARtiCle",
   "pARticLE", "pARticLe", "pARticlE", "pARticle", "pArTICLE", "pArTICLe",
   "pArTIClE", "pArTICle", "pArTIcLE", "pArTIcLe", "pArTIclE", "pArTIcle",
   "pArTiCLE", "pArTiCLe", "pArTiClE", "pArTiCle", "pArTicLE", "pArTicLe",
   "pArTiclE", "pArTicle", "pArtICLE", "pArtICLe", "pArtIClE", "pArtICle",
   "pArtIcLE", "pArtIcLe", "pArtIclE", "pArtIcle", "pArtiCLE", "pArtiCLe",
   "pArtiClE", "pArtiCle", "pArticLE", "pArticLe", "pArticlE", "pArticle",
   "paRTICLE", "paRTICLe", "paRTIClE", "paRTICle", "paRTIcLE", "paRTIcLe",
   "paRTIclE", "paRTIcle", "paRTiCLE", "paRTiCLe", "paRTiClE", "paRTiCle",
   "paRTicLE", "paRTicLe", "paRTiclE", "paRTicle", "paRtICLE", "paRtICLe",
   "paRtIClE", "paRtICle", "paRtIcLE", "paRtIcLe", "paRtIclE", "paRtIcle",
   "paRtiCLE", "paRtiCLe", "paRtiClE", "paRtiCle", "paRticLE", "paRticLe",
   "paRticlE", "paRticle", "parTICLE", "parTICLe", "parTIClE", "parTICle",
   "parTIcLE", "parTIcLe", "parTIclE", "parTIcle", "parTiCLE", "parTiCLe",
   "parTiClE", "parTiCle", "parTicLE", "parTicLe", "parTiclE", "parTicle",
   "partICLE", "partICLe", "partIClE", "partICle", "partIcLE", "partIcLe",
   "partIclE", "partIcle", "partiCLE", "partiCLe", "partiClE", "partiCle",
   "particLE", "particLe", "particlE", "particle"}

\* sampling_type.lower(): the acceptable value a spelling of it lowers to;
\* any other string lowers to a string that is not acceptable either
SamplingLower(sampling_type) ==
  CASE sampling_type \in CellSpellings -> "cell"
    [] sampling_type \in ParticleSpellings -> "particle"
    [] sampling_type \in LocalSpellings -> "local"
    [] OTHER -> sampling_type

acceptable_samplings == {"cell", "particle", "local"}

\* the exception _sanitize_sampling_type raises, "none" when it returns;
\* particle_type stands for the truth value of the deprecated argument
sanitize_error(sampling_type, particle_type) ==
  IF sampling_type = NotAStr THEN "TypeError"
  ELSE IF SamplingLower(sampling_type) \notin acceptable_samplings
  THEN "ValueError"
  ELSE IF particle_type /\ SamplingLower(sampling_type) # "particle"
  THEN "RuntimeError"
  ELSE "none"

\* FieldInfoContainer._sanitize_sampling_type(sampling_type, particle_type)
sanitize_sampling_type(sampling_type, particle_type) ==
  [err |-> sanitize_error(sampling_type, particle_type),
   val |-> IF sanitize_error(sampling_type, particle_type) = "none"
           THEN SamplingLower(sampling_type) ELSE NotAStr]

\* The unit an alias takes when none is given: the dataset's preferred unit
\* for the source's dimension, the source's own units when dimensionless.
AliasUnits(units) ==
  CASE units = "" -> ""
    [] units = "code_density" -> "g/cm**3"
    [] units = "((code_density)*2.0)" -> "g/cm**3"
    [] units = "((code_density)*1.0)" -> "g/cm**3"
    [] OTHER -> units

\* self[name] = val in registry r; st is [chain, field_aliases]
SetItem(st, r, name, val) ==
  [st EXCEPT !.chain[r] = DictSet(st.chain[r], name, val)]

\* a qualification that ignores the sampling type
field_type_always_fluid(stype) == default_fluid_type

\* the category add_field gives a bare name: "all" for particle fields,
\* ds.default_fluid_type otherwise
field_type(stype) == IF stype = "particle" THEN "all" ELSE default_fluid_type

RECURSIVE add_field(_, _, _, _, _, _, _, _, _)
RECURSIVE alias(_, _, _, _)

\* the exception add_field raises, "none" when it returns: the sampling
\* type of a bare name that is not registered yet or overridden is sanitized
add_field_error(st, r, name, sampling_type, override, particle_type) ==
  IF ~override /\ contains(st.chain, r, name) THEN "none"
  ELSE IF IsTuple(name) THEN "none"
  ELSE sanitize_error(sampling_type, particle_type)

\* FieldInfoContainer.add_field with a function supplied; particle_type is
\* the truth value of kwargs.get("particle_type"). A call that raises has
\* stored nothing.
add_field(st, r, name, function, sampling_type, units, display_name, override, particle_type) ==
  IF ~override /\ contains(st.chain, r, name) THEN st
  ELSE IF IsTuple(name)
  THEN SetItem(st, r, name,
               DerivedField(name, sampling_type, function, units, display_name))
  ELSE IF sanitize_error(sampling_type, particle_type) # "none" THEN st
  ELSE LET stype == sanitize_sampling_type(sampling_type, particle_type).val
           ftype == field_type(stype)
           tuple_name == <<ftype, name[1]>>
       IN IF ~contains(st.chain, r, tuple_name)
          THEN alias(SetItem(st, r, tuple_name,
                             DerivedField(tuple_name, stype, function, units,
                                          display_name)),
                     r, name, tuple_name)
          ELSE SetItem(st, r, name,
                       DerivedField(name, stype, function, units, display_name))

\* an alias that records the relation without looking for the source
alias_source_unchecked(st, r, alias_name, original_name) ==
  [st EXCEPT !.field_aliases[r][alias_name] = original_name]

\* FieldInfoContainer.alias with units=None
alias(st, r, alias_name, original_name) ==
  IF ~contains(st.chain, r, original_name) THEN st
  ELSE LET orig == getitem(st.chain, r, original_name).val
           recorded == [st EXCEPT !.field_aliases[r][alias_name] = original_name]
       IN add_field(recorded, r, alias_name, TranslationFunc(original_name),
                    orig.sampling_type, AliasUnits(orig.units),
                    orig.display_name, FALSE, FALSE)

\* an add_output_field that leaves a registered identity alone
add_output_field_if_absent(st, r, name, sampling_type, units, display_name) ==
  IF contains(st.chain, r, name) THEN st
  ELSE SetItem(st, r, name,
               DerivedField(name, sampling_type, NullFunc, units, display_name))

\* FieldInfoContainer.add_output_field
add_output_field(st, r, name, sampling_type, units, display_name) ==
  SetItem(st, r, name,
          DerivedField(name, sampling_type, NullFunc, units, display_name))

\* FieldInfoContainer.add_field with function=None: the closure it
\* returns. When the name is registered and force_override is not given
\* the closure only returns its argument ("identity"); otherwise it
\* captures name, sampling_type and the keyword arguments ("register").
add_field_deferred(st, r, name, sampling_type, override) ==
  [kind |-> IF ~override /\ contains(st.chain, r, name)
            THEN "identity" ELSE "register",
   r |-> r, name |-> name, sampling_type |-> sampling_type,
   override |-> override]

\* create_function(f): "self[name] = DerivedField(name, sampling_type, f,
\* **kwargs)" for the capturing closure, nothing for the other
create_function(st, closure, function, units, display_name) ==
  IF closure.kind = "register"
  THEN SetItem(st, closure.r, closure.name,
               DerivedField(closure.name, closure.sampling_type, function,
                            units, display_name))
  ELSE st

(* ------------------------- dependency discovery ------------------------ *)

\* What a user-supplied field function does under the field detector:
\* it reads fields and the detector records them, or it raises.
FuncOutcome(id) ==
  CASE id = "f_disk" -> [kind |-> "ok", requested |-> {GasD}]
    [] id = "f_miss" -> [kind |-> "ok", requested |-> {GasM}]
    [] id = "p_disk" -> [kind |-> "ok", requested |-> {GasD}]
    [] id = "p_miss" -> [kind |-> "ok", requested |-> {GasM}]
    [] id = "p_lost" -> [kind |-> "ok", requested |-> {GasM}]
    [] id = "f_nf" -> [kind |-> "YTFieldNotFound", requested |-> {}]
    [] OTHER -> [kind |-> "Exception", requested |-> {}]

\* fi.get_dependencies(ds=self.ds): the fields definition fi needs.  A
\* passthrough field needs itself, a translation needs what its source
\* needs (found through the dataset's registry, chain[1]), a source that
\* is not registered is field-not-found, and a cycle of translations ends
\* in a recursion error.
RECURSIVE get_dependencies(_, _, _, _)
get_dependencies(ch, fl, fi, depth) ==
  IF fi.function.f = "NullFunc"
  THEN IF fi.name \in Range(fl)
       THEN [kind |-> "ok", requested |-> {fi.name}]
       ELSE [kind |-> "YTFieldNotFound", requested |-> {}]
  ELSE IF fi.function.f = "TranslationFunc"
  THEN LET src == getitem(ch, 1, fi.function.src)
       IN IF src.err # "none" THEN [kind |-> "YTFieldNotFound", requested |-> {}]
          ELSE IF depth = 0 THEN [kind |-> "Exception", requested |-> {}]
          ELSE get_dependencies(ch, fl, src.val, depth - 1)
  ELSE FuncOutcome(fi.function.f)

\* the longest chain of translations that is no cycle
MaxDepth == Cardinality(Keys)

(* ------------------------- dependency validation ----------------------- *)

\* "missing = not all(f in self.field_list for f in fd.requested)"
requested_missing(requested, fl) == ~(\A f \in requested : f \in Range(fl))

\* whether the except clause re-raises what discovery raised for field
reraises(field, kind, strict, ftest) ==
  \/ field \in strict
  \/ kind # "YTFieldNotFound" /\ ftest

\* a pop that is forgotten
pop_field_skipped(acc, field) == acc

\* self.pop(field) on the dataset's registry: dict.pop removes a local
\* key and raises KeyError for a key the local map does not hold
pop_field(acc, field) ==
  IF DictHas(acc.chain[1], field)
  THEN [acc EXCEPT !.chain[1] = DictPop(@, field)]
  ELSE [acc EXCEPT !.err = "KeyError"]

\* an unavailable list that is never appended to
append_unavailable_skipped(acc, field) == acc

\* "unavailable.append(field)", reached when the pop did not raise
append_unavailable(acc, field) ==
  IF acc.err # "none" THEN acc
  ELSE [acc EXCEPT !.unavailable = Append(@, field)]

\* One iteration of the loop of check_derived_fields per call; acc is
\* [chain, err, deps, unavailable, trace], where trace lists, per field
\* reached, what dependency discovery gave: "ok", "missing" (requested
\* fields not on disk), the error raised, or "unregistered" when self[field]
\* itself failed.  A raise ends the loop.
RECURSIVE check_loop(_, _, _, _, _, _)
check_loop(acc, fields, i, fl, strict, ftest) ==
  IF i > Len(fields) \/ acc.err # "none" THEN acc
  ELSE
    LET field == fields[i]
        fi == getitem(acc.chain, 1, field)
        fd == get_dependencies(acc.chain, fl, fi.val, MaxDepth)
        missing_req == requested_missing(fd.requested, fl)
        kind == IF fd.kind = "ok" /\ missing_req THEN "missing" ELSE fd.kind
        seen == [acc EXCEPT !.trace = Append(@, [field |-> field, kind |-> kind])]
        next ==
          IF fi.err # "none"
          THEN [acc EXCEPT !.err = fi.err,
                           !.trace = Append(@, [field |-> field,
                                                kind |-> "unregistered"])]
          ELSE IF fd.kind # "ok"
          THEN IF reraises(field, fd.kind, strict, ftest)
               THEN [seen EXCEPT !.err = fd.kind]
               ELSE pop_field(seen, field)
          ELSE IF missing_req
          THEN append_unavailable(pop_field(seen, field), field)
          ELSE [seen EXCEPT !.deps = DictSet(@, field, fd.requested)]
    IN check_loop(next, fields, i + 1, fl, strict, ftest)

\* FieldInfoContainer.check_derived_fields on the dataset's registry;
\* fields_to_check = <<>> stands for None (and for an empty list).
\* Gives [chain, derived_field_list, err, deps, unavailable, trace].
check_derived_fields(ch, dfl, fields_to_check, fl, strict, ftest) ==
  LET all == keys(ch, 1)
      start == [chain |-> ch, err |-> "none", deps |-> <<>>,
                unavailable |-> <<>>, trace |-> <<>>]
      out == IF fields_to_check # <<>>
             THEN check_loop(start, fields_to_check, 1, fl, strict, ftest)
             ELSE IF all.err # "none" THEN [start EXCEPT !.err = all.err]
             ELSE check_loop(start, all.val, 1, fl, strict, ftest)
      merged == SortedByTupleize(Range(dfl) \cup Range(DictKeys(out.deps)))
  IN [chain |-> out.chain,
      derived_field_list |-> IF out.err = "none" THEN merged ELSE dfl,
      err |-> out.err, deps |-> out.deps,
      unavailable |-> out.unavailable, trace |-> out.trace]

(* ------------------------------ construction --------------------------- *)

\* ds.particle_types of the dataset
particle_types == {"all", "io"}

\* the on-disk field lists a dataset may have
FieldLists == {<<GasD>>}

\* <<_show_field_errors, whether ds has _field_test_dataset>>: lenient,
\* strict about one field, and a field-test dataset
Modes == {<<{}, FALSE>>, <<{GasA}, FALSE>>, <<{}, TRUE>>}

\* Dataset.fluid_types of a dataset whose frontend adds no category
DefaultFluidTypes == <<"gas", "deposit", "index">>

\* the categories a dataset lists in ds.fluid_types
FieldTypes == {"gas", "enzo", "deposit", "index"}

\* the names geometry fields are registered under in the "index" category
IndexNames == {"dx", "x"}

\* the names particle fields and their aliases are registered under
ParticleNames ==
  {"d", "density", "mass", "ones", "particle_mass", "particle_ones",
   "particle_position", "particle_position_x", "position", "x"}

\* the alias names the catalogs declare, and the names they are renamed to
AliasNames == {"a", "e", "foo_x", "foo_y", "foo_z", "foo_r", "foo_theta", "foo_phi"}

\* every identity that can be a key of field_aliases
AllIds == Keys \cup {GasM, GasE, GasV1, GasV2, GasV3, IoD}
               \cup {<<"gas", n>> : n \in AliasNames}
               \cup (FieldTypes \X IndexNames)
               \cup ({"gas", "all", "io"} \X ParticleNames)

NoAliases == [k \in AllIds |-> NoKey]

\* what known_other_fields.get(name, ("", [], None)) defaults to
NoArgs == [units |-> "", aliases |-> <<>>, display_name |-> "None"]

\* dict.get(key, default)
dict_get(d, key, default) == IF DictHas(d, key) THEN DictGet(d, key) ELSE default

\* alias[-2:] for the alias names in play
Suffix2(alias_name) ==
  CASE alias_name = "foo_x" -> "_x"
    [] alias_name = "foo_y" -> "_y"
    [] alias_name = "foo_z" -> "_z"
    [] alias_name = "foo_r" -> "_r"
    [] alias_name = "foo_theta" -> "ta"
    [] alias_name = "foo_phi" -> "hi"
    [] OTHER -> alias_name

\* alias[:-2] for the alias names that end in _x, _y or _z
Stem(alias_name) ==
  CASE alias_name \in {"foo_x", "foo_y", "foo_z"} -> "foo"
    [] OTHER -> ""

\* f"{stem}_{suffix}"
WithSuffix(stem, suffix) ==
  CASE stem = "foo" /\ suffix = "x" -> "foo_x"
    [] stem = "foo" /\ suffix = "y" -> "foo_y"
    [] stem = "foo" /\ suffix = "z" -> "foo_z"
    [] stem = "foo" /\ suffix = "r" -> "foo_r"
    [] stem = "foo" /\ suffix = "theta" -> "foo_theta"
    [] stem = "foo" /\ suffix = "phi" -> "foo_phi"
    [] OTHER -> "_"

\* ds.coordinates.axis_order: spherical axes for a curvilinear dataset
axis_order(curv) == IF curv THEN <<"r", "theta", "phi">> ELSE <<"x", "y", "z">>

\* the ftype="gas" default of setup_fluid_aliases
fluid_alias_ftype == "gas"

\* sorted(self.field_list) for a list of distinct tuples
sorted_field_list(fl) == SortedByTupleize(Range(fl))

\* FieldInfoContainer.get_aliases_gallery: the aliases the catalog declares
\* for the on-disk fluid fields of a curvilinear dataset (the code builds a
\* list and only asks what is in it)
get_aliases_gallery(fl, known, curv) ==
  IF ~curv THEN {}
  ELSE UNION {Range(dict_get(known, f[2], NoArgs).aliases) :
                f \in {g \in Range(fl) : g[1] \notin particle_types}}

\* the value of to_convert once the "if/else" of setup_fluid_aliases is
\* through: FALSE for an alias without a Cartesian suffix; for one with it
\* the loop over the siblings sets FALSE and breaks at a missing sibling,
\* and the statement after the loop sets TRUE in every case
to_convert(alias_name, aliases_gallery) ==
  IF Suffix2(alias_name) \notin {"_x", "_y", "_z"} THEN FALSE
  ELSE LET in_loop ==
             IF \E suffix \in {"x", "y", "z"} :
                  WithSuffix(Stem(alias_name), suffix) \notin aliases_gallery
             THEN FALSE ELSE TRUE
           after_loop == TRUE
       IN after_loop

\* the renaming of an alias that is converted
converted_alias(alias_name, axis_names) ==
  CASE Suffix2(alias_name) = "_x" -> WithSuffix(Stem(alias_name), axis_names[1])
    [] Suffix2(alias_name) = "_y" -> WithSuffix(Stem(alias_name), axis_names[2])
    [] Suffix2(alias_name) = "_z" -> WithSuffix(Stem(alias_name), axis_names[3])
    [] OTHER -> alias_name

\* a field_units value that is a number and not a string: the multipliers
\* 1.0 and 2.0 are written "1.0" and "2.0"
IsNumeric(units) == units \in {"1.0", "2.0"}

\* f"(({args[0]})*{units})"
CombinedUnits(catalog_units, units) ==
  CASE catalog_units = "code_density" /\ units = "2.0" -> "((code_density)*2.0)"
    [] catalog_units = "code_density" /\ units = "1.0" -> "((code_density)*1.0)"
    [] OTHER -> "((units)*multiplier)"

\* a resolution where the override keyed by the bare name is asked last
resolve_units_name_wins(field, known, units_of) ==
  LET catalog_units == dict_get(known, field[2], NoArgs).units
      by_tuple == dict_get(units_of, field, catalog_units)
      by_name == dict_get(units_of, <<field[2]>>, by_tuple)
  IN by_name

\* the units setup_fluid_aliases registers for an on-disk field: the
\* catalog's, replaced by ds.field_units[name], replaced by
\* ds.field_units[field]; a numeric override multiplies the catalog's units
\* and is dimensionless when the catalog has none
resolve_units(field, known, units_of) ==
  LET catalog_units == dict_get(known, field[2], NoArgs).units
      by_name == dict_get(units_of, <<field[2]>>, catalog_units)
      by_tuple == dict_get(units_of, field, by_name)
      combined == IF IsNumeric(by_tuple) /\ catalog_units # ""
                  THEN CombinedUnits(catalog_units, by_tuple) ELSE by_tuple
  IN IF IsNumeric(combined) /\ catalog_units = "" /\ combined # "1.0" THEN ""
     ELSE IF combined = "1.0" THEN ""
     ELSE combined

\* the loop "for alias in aliases" of setup_fluid_aliases for one field
RECURSIVE alias_loop(_, _, _, _, _, _)
alias_loop(st, field, aliases, j, aliases_gallery, curv) ==
  IF j > Len(aliases) THEN st
  ELSE LET given == aliases[j]
           alias_name == IF curv /\ to_convert(given, aliases_gallery)
                         THEN converted_alias(given, axis_order(curv))
                         ELSE given
       IN alias_loop(alias(st, 1, <<fluid_alias_ftype, alias_name>>, field),
                     field, aliases, j + 1, aliases_gallery, curv)

\* the loop "for field in sorted(self.field_list)" of setup_fluid_aliases
RECURSIVE fluid_loop(_, _, _, _, _, _, _)
fluid_loop(st, fields, i, known, units_of, aliases_gallery, curv) ==
  IF i > Len(fields) THEN st
  ELSE IF fields[i][1] \in particle_types
  THEN fluid_loop(st, fields, i + 1, known, units_of, aliases_gallery, curv)
  ELSE LET field == fields[i]
           args == dict_get(known, field[2], NoArgs)
           added == add_output_field(st, 1, field, "cell",
                                     resolve_units(field, known, units_of),
                                     args.display_name)
           aliased == alias_loop(added, field, args.aliases, 1,
                                 aliases_gallery, curv)
       IN fluid_loop(aliased, fields, i + 1, known, units_of,
                     aliases_gallery, curv)

\* FieldInfoContainer.setup_fluid_aliases on a list of tuples
setup_fluid_aliases(st, fl, known, units_of, curv) ==
  fluid_loop(st, sorted_field_list(fl), 1, known, units_of,
             get_aliases_gallery(fl, known, curv), curv)

\* the result record of an operation that has not run
NoRet ==
  [op |-> "init", r |-> 0, name |-> NoKey, function |-> NoDef.function,
   sampling_type |-> "", override |-> FALSE, existed |-> FALSE,
   qualified |-> FALSE, fields |-> <<>>, err |-> "none", deps |-> <<>>,
   unavailable |-> <<>>, trace |-> <<>>, loaded |-> <<>>, pick |-> ""]

\* no deferred registration is waiting for its function
NoPending ==
  [kind |-> "none", r |-> 0, name |-> NoKey, sampling_type |-> "",
   override |-> FALSE]

\* FieldInfoContainer.__init__ for the dataset's registry, and the empty
\* registries of its fallback chain
InitRegistry ==
  /\ field_list \in FieldLists
  /\ known_other_fields = <<>>
  /\ known_particle_fields = <<>>
  /\ sph_ptypes = FALSE
  /\ field_units = <<>>
  /\ curvilinear = FALSE
  /\ field_dependencies = <<>>
  /\ pending = NoPending
  /\ \E n \in 1..MaxRegs :
       LET empty == [chain |-> [r \in 1..n |-> <<>>],
                     field_aliases |-> [r \in 1..n |-> NoAliases]]
           built == setup_fluid_aliases(empty, field_list, known_other_fields,
                                        field_units, curvilinear)
       IN /\ chain = built.chain
          /\ field_aliases = built.field_aliases
  /\ \E m \in Modes : show_field_errors = m[1] /\ field_test = m[2]
  /\ derived_field_list = <<>>
  /\ ret = NoRet
  /\ nops = 0

\* a dataset whose registry has no population routine registered
Init ==
  InitRegistry /\ field_plugins = <<>> /\ fluid_types = DefaultFluidTypes

(* -------------------------------- actions ------------------------------ *)

Regs == 1..Len(chain)

\* what callers register: <<name, sampling_type>>
AddNames == {<<GasA, "cell">>, <<AllA, "particle">>,
             <<BareA, "cell">>, <<BareA, "particle">>}

\* the field functions registered in registry r: every behaviour in the
\* dataset's registry, a computable and a failing one in its fallbacks
FuncIds(r) == IF r = 1 THEN {"f_disk", "f_miss", "f_nf", "f_err"}
              ELSE {"f_disk", "f_err"}

\* force_override is passed to the dataset's registry only
Overrides(r) == IF r = 1 THEN BOOLEAN ELSE {FALSE}

\* <<alias_name, original_name>> of the alias calls made directly
AliasPairs == {<<GasA, GasD>>, <<GasA, AllA>>, <<AllA, GasD>>, <<AllA, GasA>>}

\* the identities callers list in fields_to_check
CheckKeys == {BareA, GasA}

\* sequences over S of length 1..n
SeqsUpTo(S, n) == UNION {[1..m -> S] : m \in 1..n}

\* registry r: add_field(name, function, sampling_type, force_override=...,
\* particle_type=...)
AddField(r, name, id, sampling_type, override, particle_type) ==
  LET st == [chain |-> chain, field_aliases |-> field_aliases]
      out == add_field(st, r, name, UserFunc(id), sampling_type, "", "None",
                       override, particle_type)
      stype == SamplingLower(sampling_type)
      ftype == field_type(stype)
  IN /\ nops < MaxOps
     /\ chain' = out.chain
     /\ field_aliases' = out.field_aliases
     /\ ret' = [NoRet EXCEPT !.op = "add_field", !.r = r, !.name = name,
                  !.function = UserFunc(id), !.sampling_type = sampling_type,
                  !.override = override,
                  !.err = add_field_error(st, r, name, sampling_type,
                                          override, particle_type),
                  !.existed = contains(chain, r, name),
                  !.qualified = ~IsTuple(name)
                                /\ contains(chain, r, <<ftype, name[1]>>)]
     /\ nops' = nops + 1
     /\ UNCHANGED <<field_list, show_field_errors, field_test,
                    derived_field_list, config, field_dependencies, pending>>

\* registry r: alias(alias_name, original_name)
Alias(r, alias_name, original_name) ==
  LET st == [chain |-> chain, field_aliases |-> field_aliases]
      out == alias(st, r, alias_name, original_name)
  IN /\ nops < MaxOps
     /\ chain' = out.chain
     /\ field_aliases' = out.field_aliases
     /\ ret' = [NoRet EXCEPT !.op = "alias", !.r = r, !.name = alias_name,
                  !.function = TranslationFunc(original_name),
                  !.existed = contains(chain, r, alias_name)]
     /\ nops' = nops + 1
     /\ UNCHANGED <<field_list, show_field_errors, field_test,
                    derived_field_list, config, field_dependencies, pending>>

\* the dataset's registry: check_derived_fields(fields_to_check)
Validate(fields_to_check) ==
  LET out == check_derived_fields(chain, derived_field_list, fields_to_check,
                                  field_list, show_field_errors, field_test)
  IN /\ nops < MaxOps
     /\ chain' = out.chain
     /\ derived_field_list' = out.derived_field_list
     /\ ret' = [NoRet EXCEPT !.op = "check_derived_fields", !.r = 1,
                  !.fields = fields_to_check, !.err = out.err,
                  !.deps = out.deps, !.unavailable = out.unavailable,
                  !.trace = out.trace]
     /\ nops' = nops + 1
     /\ UNCHANGED <<field_aliases, field_list, show_field_errors, field_test,
                    config, field_dependencies, pending>>

Next ==
  \/ \E r \in Regs, n \in AddNames :
       \E id \in FuncIds(r), override \in Overrides(r) :
         AddField(r, n[1], id, n[2], override, FALSE)
  \/ \E p \in AliasPairs : Alias(1, p[1], p[2])
  \/ \E fields_to_check \in {<<>>} \cup SeqsUpTo(CheckKeys, MaxCheck) :
       Validate(fields_to_check)

Spec == Init /\ [][Next]_vars

(* ------------------------------ plugin loader -------------------------- *)

\* the names population routines are registered under
PluginNames == {"pa", "pb", "pc", "pd", "pe"}

\* field_plugins[plugin_name]: what the routine registered under a name
\* does to the registry, as the calls it makes: add_field(name, function,
\* sampling_type, force_override=override) when source is empty, and
\* alias(name, source) otherwise.  No definition a routine writes equals a
\* definition written by anyone else, so pairs (name, definition) that are
\* equal are pairs with the same object.
Routine(plugin_name) ==
  CASE plugin_name = "pa" ->
         << [name |-> GasA, id |-> "p_disk", sampling_type |-> "cell",
             override |-> FALSE, source |-> NoKey] >>
    [] plugin_name = "pb" ->
         << [name |-> GasA, id |-> "p_miss", sampling_type |-> "cell",
             override |-> TRUE, source |-> NoKey] >>
    [] plugin_name = "pc" ->
         << [name |-> AllA, id |-> "p_miss", sampling_type |-> "particle",
             override |-> FALSE, source |-> NoKey],
            [name |-> GasA, id |-> "p_err", sampling_type |-> "cell",
             override |-> FALSE, source |-> NoKey] >>
    [] plugin_name = "pe" ->
         << [name |-> GasA, id |-> "p_lost", sampling_type |-> "cell",
             override |-> TRUE, source |-> NoKey],
            [name |-> AllA, id |-> "", sampling_type |-> "",
             override |-> FALSE, source |-> GasA] >>
    [] OTHER -> << >>

\* the sequences without repetition over S of length up to n
OrdersUpTo(S, n) ==
  {<<>>} \cup {q \in SeqsUpTo(S, n) : \A i, j \in 1..Len(q) : i # j => q[i] # q[j]}

\* field_plugins: the registered names in the order of their registration
PluginOrders == OrdersUpTo(PluginNames, MaxPlugins)

\* the orders in which a set iterates over the pairs of a difference
SetOrders == {"asc", "desc"}

\* sorted(field_plugins): the names in the order of their strings
RECURSIVE sorted_names(_)
sorted_names(names) ==
  IF names = <<>> THEN <<>>
  ELSE LET m == CHOOSE i \in 1..Len(names) :
                  \A j \in 1..Len(names) : StrRank(names[i]) <= StrRank(names[j])
       IN <<names[m]>>
          \o sorted_names(SelectSeq(names, LAMBDA n : n # names[m]))

\* f(self, ftype, slice_info=self.slice_info): the calls of a routine
RECURSIVE run_routine(_, _, _)
run_routine(st, calls, i) ==
  IF i > Len(calls) THEN st
  ELSE run_routine(IF calls[i].source # NoKey
                   THEN alias(st, 1, calls[i].name, calls[i].source)
                   ELSE add_field(st, 1, calls[i].name, UserFunc(calls[i].id),
                                  calls[i].sampling_type, "", "None",
                                  calls[i].override, FALSE),
                   calls, i + 1)

\* "loaded = [n for n, v in set(self.items()).difference(orig)]": the
\* keys of the pairs that were not in the registry before the routine ran,
\* in the order the set iterates, which set_order stands for
new_items(orig, after, rewritten, set_order) ==
  [st |-> after,
   loaded |-> IF set_order = "asc"
              THEN SortedByTupleize({e.k : e \in Range(after.chain[1]) \ orig}
                                      \cup rewritten)
              ELSE Reversed(SortedByTupleize(
                              {e.k : e \in Range(after.chain[1]) \ orig}
                                \cup rewritten))]

\* the identities a routine assigns a new definition object whatever the
\* registry holds: those it registers with force_override (the routines
\* register tuple identities).  Such a pair is in the set difference even
\* when the definition it replaces was written by the same call before.
rewritten_keys(calls) ==
  {calls[i].name : i \in {j \in 1..Len(calls) :
                            calls[j].override /\ calls[j].source = NoKey}}

\* FieldInfoContainer.load_plugin: [st, loaded]
load_plugin(st, plugin_name, set_order) ==
  new_items(Range(st.chain[1]), run_routine(st, Routine(plugin_name), 1),
            rewritten_keys(Routine(plugin_name)), set_order)

\* "loaded += self.load_plugin(n, ftype)"
add_loaded(loaded, one) == [st |-> one.st, loaded |-> loaded \o one.loaded]

\* the loop "for n in sorted(field_plugins)" of load_all_plugins
RECURSIVE plugin_loop(_, _, _, _)
plugin_loop(acc, names, i, set_order) ==
  IF i > Len(names) THEN acc
  ELSE plugin_loop(add_loaded(acc.loaded,
                              load_plugin(acc.st, names[i], set_order)),
                   names, i + 1, set_order)

\* dict.update(other)
RECURSIVE dict_update(_, _, _)
dict_update(d, other, i) ==
  IF i > Len(other) THEN d
  ELSE dict_update(DictSet(d, other[i].k, other[i].v), other, i + 1)

\* what find_dependencies does with the outcome of check_derived_fields,
\* whose raise leaves the rest undone: update ds.field_dependencies and
\* merge the keys into ds.derived_field_list once more
update_dependencies(run, checked, fdeps) ==
  [chain |-> checked.chain,
   field_aliases |-> run.st.field_aliases,
   derived_field_list |->
     IF checked.err # "none" THEN checked.derived_field_list
     ELSE SortedByTupleize(Range(checked.derived_field_list)
                             \cup Range(DictKeys(checked.deps))),
   field_dependencies |->
     IF checked.err # "none" THEN fdeps
     ELSE dict_update(fdeps, checked.deps, 1),
   err |-> checked.err, loaded |-> run.loaded, deps |-> checked.deps,
   unavailable |-> checked.unavailable, trace |-> checked.trace]

\* FieldInfoContainer.find_dependencies(loaded) after the routines ran
find_dependencies(run, dfl, fdeps, fl, strict, ftest) ==
  update_dependencies(run,
                      check_derived_fields(run.st.chain, dfl, run.loaded, fl,
                                           strict, ftest),
                      fdeps)

\* FieldInfoContainer.load_all_plugins on the dataset's registry
load_all_plugins(st, dfl, fdeps, plugins, set_order, fl, strict, ftest) ==
  find_dependencies(plugin_loop([st |-> st, loaded |-> <<>>],
                                sorted_names(plugins), 1, set_order),
                    dfl, fdeps, fl, strict, ftest)

\* a dataset whose registry has population routines registered
InitPlugins ==
  /\ InitRegistry
  /\ field_plugins \in PluginOrders
  /\ fluid_types = DefaultFluidTypes

\* what is registered before the routines are loaded:
\* <<registry, name, function, sampling_type>>
EarlierFields ==
  {<<1, GasA, "f_disk", "cell">>, <<1, GasA, "f_miss", "cell">>,
   <<1, AllA, "f_miss", "particle">>, <<1, BareA, "f_nf", "cell">>,
   <<2, GasA, "f_disk", "cell">>}

\* the dataset's registry: load_all_plugins(), once per dataset
LoadAllPlugins(set_order) ==
  \E out \in {load_all_plugins([chain |-> chain,
                                field_aliases |-> field_aliases],
                               derived_field_list, field_dependencies,
                               field_plugins, set_order, field_list,
                               show_field_errors, field_test)} :
     /\ nops < MaxOps
     /\ ret.op # "load_all_plugins"
     /\ chain' = out.chain
     /\ field_aliases' = out.field_aliases
     /\ derived_field_list' = out.derived_field_list
     /\ field_dependencies' = out.field_dependencies
     /\ ret' = [NoRet EXCEPT !.op = "load_all_plugins", !.r = 1,
                  !.err = out.err, !.loaded = out.loaded,
                  !.pick = set_order, !.deps = out.deps,
                  !.unavailable = out.unavailable, !.trace = out.trace]
     /\ nops' = nops + 1
     /\ UNCHANGED <<field_list, show_field_errors, field_test, config, pending>>

\* the dataset's registry: load_plugin(plugin_name), with the name of a
\* registered routine or (as_callable) with the routine itself; a name
\* that is not in field_plugins raises KeyError
LoadPlugin(plugin_name, as_callable, set_order) ==
  \E out \in {load_plugin([chain |-> chain, field_aliases |-> field_aliases],
                          plugin_name, set_order)} :
     /\ nops < MaxOps
     /\ IF as_callable \/ plugin_name \in Range(field_plugins)
        THEN /\ chain' = out.st.chain
             /\ field_aliases' = out.st.field_aliases
             /\ ret' = [NoRet EXCEPT !.op = "load_plugin", !.r = 1,
                          !.loaded = out.loaded]
        ELSE /\ UNCHANGED <<chain, field_aliases>>
             /\ ret' = [NoRet EXCEPT !.op = "load_plugin", !.r = 1,
                          !.err = "KeyError"]
     /\ nops' = nops + 1
     /\ UNCHANGED <<field_list, show_field_errors, field_test,
                    derived_field_list, config, field_dependencies, pending>>

NextPlugins ==
  \/ \E e \in EarlierFields :
       /\ e[1] \in Regs
       /\ ret.op # "load_all_plugins"
       /\ AddField(e[1], e[2], e[3], e[4], FALSE, FALSE)
  \/ \E set_order \in SetOrders : LoadAllPlugins(set_order)
  \/ \E plugin_name \in {"pa", "pb", "pe"}, as_callable \in BOOLEAN :
       \E set_order \in SetOrders :
         LoadPlugin(plugin_name, as_callable, set_order)

SpecPlugins == InitPlugins /\ [][NextPlugins]_vars

(* --------------------------- index-field aliases ----------------------- *)

\* the ds.fluid_types of the datasets: the default, and a frontend that
\* appends its own category
FluidTypeLists == {DefaultFluidTypes, <<"gas", "deposit", "index", "enzo">>}

\* the names of two characters: "for _, f in self" unpacks such a bare name
\* into its two characters
TwoCharNames ==
  {"dx", "io", "pa", "pb", "pc", "pd", "pe", "v1", "v2", "v3"}

\* whether "_, f = key" succeeds: a tuple identity has two items, a bare
\* name is a str and has as many items as characters
unpacks(key) == IsTuple(key) \/ key[1] \in TwoCharNames

\* set([f for _, f in self if _ == "index"]): a bare name of two characters
\* unpacks into single characters, none of which is "index"
index_fields(ch, r) ==
  {key[2] : key \in {k \in Range(iter(ch, r)) : IsTuple(k) /\ k[1] = "index"}}

\* the names of a set in the order of their strings
RECURSIVE names_in_order(_)
names_in_order(S) ==
  IF S = {} THEN <<>>
  ELSE LET m == CHOOSE x \in S : \A y \in S : StrRank(x) <= StrRank(y)
       IN <<m>> \o names_in_order(S \ {m})

\* "for f in index_fields": a set of str is iterated in an order that
\* depends on the hash seed
set_iteration(S, set_order) ==
  IF set_order = "asc" THEN names_in_order(S) ELSE Reversed(names_in_order(S))

\* a test that lets the "deposit" category through
skipped_ftype_index_only(ftype) == ftype = "index"

\* ftype in ("index", "deposit")
skipped_ftype(ftype) == ftype \in {"index", "deposit"}

\* the loop "for f in index_fields" for one ftype
RECURSIVE index_alias_loop(_, _, _, _, _)
index_alias_loop(st, r, ftype, names, j) ==
  IF j > Len(names) THEN st
  ELSE index_alias_loop(
         IF contains(st.chain, r, <<ftype, names[j]>>) THEN st
         ELSE alias(st, r, <<ftype, names[j]>>, <<"index", names[j]>>),
         r, ftype, names, j + 1)

\* the loop "for ftype in self.ds.fluid_types"
RECURSIVE ftype_loop(_, _, _, _, _)
ftype_loop(st, r, ftypes, names, i) ==
  IF i > Len(ftypes) THEN st
  ELSE ftype_loop(IF skipped_ftype(ftypes[i]) THEN st
                  ELSE index_alias_loop(st, r, ftypes[i], names, 1),
                  r, ftypes, names, i + 1)

\* FieldInfoContainer.setup_fluid_index_fields of a registry with a dataset:
\* the comprehension raises ValueError at a key that does not unpack
setup_fluid_index_fields(st, r, ftypes, set_order) ==
  IF \E key \in Range(iter(st.chain, r)) : ~unpacks(key)
  THEN [chain |-> st.chain, field_aliases |-> st.field_aliases,
        err |-> "ValueError"]
  ELSE LET out == ftype_loop(st, r, ftypes,
                             set_iteration(index_fields(st.chain, r),
                                           set_order), 1)
       IN [chain |-> out.chain, field_aliases |-> out.field_aliases,
           err |-> "none"]

\* a dataset whose registry is about to alias its index fields
InitIndex ==
  InitRegistry /\ field_plugins = <<>> /\ fluid_types \in FluidTypeLists

\* what is registered before the index fields are aliased:
\* <<registry, name, function, sampling_type>>
IndexEarlier ==
  {<<1, <<"index", "dx">>, "f_disk", "cell">>,
   <<1, <<"index", "x">>, "f_disk", "cell">>,
   <<2, <<"index", "dx">>, "f_disk", "cell">>,
   <<1, <<"gas", "dx">>, "f_miss", "cell">>,
   <<2, <<"enzo", "x">>, "f_disk", "cell">>,
   <<1, BareA, "f_disk", "cell">>}

\* the dataset's registry: setup_fluid_index_fields()
SetupFluidIndexFields(set_order) ==
  \E out \in {setup_fluid_index_fields([chain |-> chain,
                                        field_aliases |-> field_aliases],
                                       1, fluid_types, set_order)} :
     /\ nops < MaxOps
     /\ chain' = out.chain
     /\ field_aliases' = out.field_aliases
     /\ ret' = [NoRet EXCEPT !.op = "setup_fluid_index_fields", !.r = 1,
                  !.err = out.err, !.pick = set_order]
     /\ nops' = nops + 1
     /\ UNCHANGED <<field_list, show_field_errors, field_test,
                    derived_field_list, config, field_dependencies, pending>>

NextIndex ==
  \/ \E e \in IndexEarlier :
       /\ e[1] \in Regs
       /\ AddField(e[1], e[2], e[3], e[4], FALSE, FALSE)
  \/ \E set_order \in SetOrders : SetupFluidIndexFields(set_order)

SpecIndex == InitIndex /\ [][NextIndex]_vars

(* ------------------------ publishing dependencies ---------------------- *)

\* the lists of newly added fields the dataset hands to find_dependencies
LoadedLists == {<<GasA>>, <<BareA>>, <<AllA>>}

\* what is registered between two publications:
\* <<name, function, sampling_type>>
PublishedFields ==
  {<<GasA, "f_disk", "cell">>, <<GasA, "f_miss", "cell">>,
   <<BareA, "f_disk", "cell">>, <<BareA, "f_miss", "cell">>}

\* registrations with other spellings of the sampling type, values that are
\* rejected, and the deprecated particle_type:
\* <<name, function, sampling_type, particle_type>>
SamplingVariants ==
  {<<BareA, "f_disk", "bogus", FALSE>>, <<BareA, "f_disk", NotAStr, FALSE>>,
   <<BareA, "f_disk", "CELL", TRUE>>, <<BareA, "f_disk", "Particle", TRUE>>}

\* the dataset's registry: find_dependencies(loaded), called after fields
\* were added
FindDependencies(loaded) ==
  \E out \in {find_dependencies([st |-> [chain |-> chain,
                                         field_aliases |-> field_aliases],
                                 loaded |-> loaded],
                                derived_field_list, field_dependencies,
                                field_list, show_field_errors, field_test)} :
     /\ ret.op # "find_dependencies"
     /\ chain' = out.chain
     /\ derived_field_list' = out.derived_field_list
     /\ field_dependencies' = out.field_dependencies
     /\ ret' = [NoRet EXCEPT !.op = "find_dependencies", !.r = 1,
                  !.fields = loaded, !.err = out.err, !.loaded = out.loaded,
                  !.deps = out.deps, !.unavailable = out.unavailable,
                  !.trace = out.trace]
     /\ UNCHANGED <<field_aliases, field_list, show_field_errors, field_test,
                    nops, config, pending>>

\* the dataset's registry: add_output_field(name, sampling_type)
AddOutputField(name, sampling_type) ==
  \E out \in {add_output_field([chain |-> chain,
                                field_aliases |-> field_aliases],
                               1, name, sampling_type, "", "None")} :
     /\ nops < MaxOps
     /\ chain' = out.chain
     /\ field_aliases' = out.field_aliases
     /\ ret' = [NoRet EXCEPT !.op = "add_output_field", !.r = 1,
                  !.name = name, !.function = NullFunc,
                  !.sampling_type = sampling_type,
                  !.existed = contains(chain, 1, name)]
     /\ nops' = nops + 1
     /\ UNCHANGED <<field_list, show_field_errors, field_test,
                    derived_field_list, config, field_dependencies, pending>>

\* the dataset's registry: setup_fluid_aliases() called again after
\* construction
SetupFluidAliasesAgain ==
  \E out \in {setup_fluid_aliases([chain |-> chain,
                                   field_aliases |-> field_aliases],
                                  field_list, known_other_fields,
                                  field_units, curvilinear)} :
     /\ nops < MaxOps
     /\ chain' = out.chain
     /\ field_aliases' = out.field_aliases
     /\ ret' = [NoRet EXCEPT !.op = "setup_fluid_aliases", !.r = 1]
     /\ nops' = nops + 1
     /\ UNCHANGED <<field_list, show_field_errors, field_test,
                    derived_field_list, config, field_dependencies, pending>>

NextPublish ==
  \/ \E e \in PublishedFields, override \in BOOLEAN :
       AddField(1, e[1], e[2], e[3], override, FALSE)
  \/ AddField(1, GasD, "f_miss", "cell", TRUE, FALSE)
  \/ \E name \in {GasA, BareA} : AddOutputField(name, "cell")
  \/ SetupFluidAliasesAgain
  \/ \E e \in SamplingVariants : AddField(1, e[1], e[2], e[3], FALSE, e[4])
  \/ Alias(1, AllA, GasA)
  \/ \E fields_to_check \in {<<>>, <<GasA>>} : Validate(fields_to_check)
  \/ \E loaded \in LoadedLists : FindDependencies(loaded)

SpecPublish == Init /\ [][NextPublish]_vars

(* --------------------------- deferred registration --------------------- *)

\* the functions registered directly and through a closure
DeferredFuncIds == {"f_disk", "f_miss"}

\* registry r: add_field(name, None, sampling_type, force_override=...),
\* whose closure is kept until it is called
AddFieldDeferred(r, name, sampling_type, override) ==
  /\ nops < MaxOps
  /\ pending' = add_field_deferred([chain |-> chain,
                                    field_aliases |-> field_aliases],
                                   r, name, sampling_type, override)
  /\ ret' = [NoRet EXCEPT !.op = "add_field_deferred", !.r = r,
               !.name = name, !.sampling_type = sampling_type,
               !.override = override, !.existed = contains(chain, r, name)]
  /\ nops' = nops + 1
  /\ UNCHANGED <<chain, field_aliases, field_list, show_field_errors,
                 field_test, derived_field_list, config, field_dependencies>>

\* the closure returned by the last deferred add_field is called with f
InvokeClosure(id) ==
  \E out \in {create_function([chain |-> chain,
                               field_aliases |-> field_aliases],
                              pending, UserFunc(id), "", "None")} :
     /\ pending.kind # "none"
     /\ chain' = out.chain
     /\ field_aliases' = out.field_aliases
     /\ pending' = NoPending
     /\ ret' = [NoRet EXCEPT !.op = "create_function", !.r = pending.r,
                  !.name = pending.name, !.function = UserFunc(id),
                  !.sampling_type = pending.sampling_type,
                  !.override = pending.override]
     /\ UNCHANGED <<field_list, show_field_errors, field_test,
                    derived_field_list, nops, config, field_dependencies>>

NextDeferred ==
  \/ \E r \in Regs, n \in AddNames :
       \E id \in DeferredFuncIds, override \in Overrides(r) :
         AddField(r, n[1], id, n[2], override, FALSE)
  \/ \E r \in Regs, n \in AddNames :
       \E override \in Overrides(r) : AddFieldDeferred(r, n[1], n[2], override)
  \/ \E id \in DeferredFuncIds : InvokeClosure(id)

SpecDeferred == Init /\ [][NextDeferred]_vars

(* ------------------- construction as an operation ---------------------- *)

\* the fields a dataset under construction may have on disk
OnDiskCandidates == {GasA, GasD, GasE, GasV1, GasV2, GasV3, IoD}

\* its on-disk field lists, in an order that is not the sorted one
SetupFieldLists ==
  {Reversed(SortedByTupleize(S)) :
     S \in {T \in SUBSET OnDiskCandidates : Cardinality(T) <= MaxFields}}

\* a frontend's known_other_fields: name -> (units, aliases, display_name)
FluidCatalog ==
  << [k |-> "d", v |-> [units |-> "code_density", aliases |-> <<"a", "e">>,
                        display_name |-> "Density"]],
     [k |-> "v1", v |-> [units |-> "cm/s", aliases |-> <<"foo_x">>,
                         display_name |-> "None"]],
     [k |-> "v2", v |-> [units |-> "cm/s", aliases |-> <<"foo_y">>,
                         display_name |-> "None"]],
     [k |-> "v3", v |-> [units |-> "cm/s", aliases |-> <<"foo_z">>,
                         display_name |-> "None"]] >>

\* the base class's empty catalog and a frontend's
Catalogs == {<<>>, FluidCatalog}

\* ds.field_units: keyed by the bare name <<"d">>, by the tuple, or by both
UnitOverrides ==
  { <<>>,
    << [k |-> <<"d">>, v |-> "K"] >>,
    << [k |-> GasD, v |-> "erg"] >>,
    << [k |-> <<"d">>, v |-> "K"], [k |-> GasD, v |-> "erg"] >>,
    << [k |-> <<"d">>, v |-> "2.0"] >>,
    << [k |-> GasD, v |-> "1.0"] >>,
    << [k |-> <<"d">>, v |-> "2.0"], [k |-> GasD, v |-> "erg"] >>,
    << [k |-> IoD, v |-> "K"] >> }

\* a frontend's known_particle_fields: name -> (units, aliases, display_name)
ParticleCatalog ==
  << [k |-> "d", v |-> [units |-> "code_density",
                        aliases |-> <<"density", "particle_mass">>,
                        display_name |-> "Density"]] >>

\* <<known_particle_fields, whether ds has _sph_ptypes>>: the base class's
\* empty catalog, and a frontend's for a dataset without and with SPH
\* particle types
ParticleSetups ==
  {<< <<>>, FALSE >>, <<ParticleCatalog, FALSE>>, <<ParticleCatalog, TRUE>>}

\* FieldInfoContainer.__init__ up to the call of setup_fluid_aliases
InitSetup ==
  /\ field_list \in SetupFieldLists
  /\ known_other_fields \in Catalogs
  /\ field_units \in UnitOverrides
  /\ curvilinear \in BOOLEAN
  /\ \E p \in ParticleSetups :
       known_particle_fields = p[1] /\ sph_ptypes = p[2]
  /\ chain = << <<>> >>
  /\ field_aliases = << NoAliases >>
  /\ show_field_errors = {}
  /\ field_test = FALSE
  /\ derived_field_list = <<>>
  /\ field_plugins = <<>>
  /\ fluid_types = DefaultFluidTypes
  /\ field_dependencies = <<>>
  /\ pending = NoPending
  /\ ret = [NoRet EXCEPT !.op = "new"]
  /\ nops = 0

\* the call self.setup_fluid_aliases() that ends __init__
SetupFluidAliases ==
  LET st == [chain |-> chain, field_aliases |-> field_aliases]
      out == setup_fluid_aliases(st, field_list, known_other_fields,
                                 field_units, curvilinear)
  IN /\ ret.op = "new"
     /\ chain' = out.chain
     /\ field_aliases' = out.field_aliases
     /\ ret' = [NoRet EXCEPT !.op = "setup_fluid_aliases", !.r = 1]
     /\ UNCHANGED <<field_list, show_field_errors, field_test,
                    derived_field_list, nops, config, field_dependencies,
                    pending>>

(* --------------------------- particle fields --------------------------- *)

\* ds.particle_types_raw: the particle types that are on disk
particle_types_raw == {"io"}

\* skip_output_units of setup_particle_fields
skip_output_units == {"code_length"}

\* sph_whitelist_fields: the fixed allow-list of smoothed field names
sph_whitelist_fields == {"density", "temperature", "metallicity"}

\* the registry operations below thread [chain, field_aliases, err]; err is
\* the exception that ended the call, after which nothing more is done
Running(st) == [chain |-> st.chain, field_aliases |-> st.field_aliases,
                err |-> "none"]

\* FieldInfoContainer.alias with units given
alias_with_units(st, r, alias_name, original_name, units) ==
  IF ~contains(st.chain, r, original_name) THEN st
  ELSE add_field([st EXCEPT !.field_aliases[r][alias_name] = original_name],
                 r, alias_name, TranslationFunc(original_name),
                 getitem(st.chain, r, original_name).val.sampling_type, units,
                 getitem(st.chain, r, original_name).val.display_name,
                 FALSE, FALSE)

\* sorted(self.known_particle_fields): the entries by field name
RECURSIVE sorted_catalog(_)
sorted_catalog(known) ==
  IF known = <<>> THEN <<>>
  ELSE LET m == CHOOSE i \in 1..Len(known) :
                  \A j \in 1..Len(known) :
                    StrRank(known[i].k) <= StrRank(known[j].k)
       IN <<known[m]>>
          \o sorted_catalog(SelectSeq(known, LAMBDA e : e.k # known[m].k))

\* output_units of a known particle field: the unit system's unit for the
\* dimensions of units when the field is among its own aliases or the
\* particle type is not on disk, units itself otherwise
particle_output_units(ptype, f, aliases, units) ==
  IF (f \in Range(aliases) \/ ptype \notin particle_types_raw)
     /\ units \notin skip_output_units
  THEN AliasUnits(units) ELSE units

\* the loop "for alias in aliases" of setup_particle_fields
RECURSIVE particle_alias_loop(_, _, _, _, _, _)
particle_alias_loop(st, ptype, f, aliases, output_units, i) ==
  IF i > Len(aliases) THEN st
  ELSE particle_alias_loop(
         alias_with_units(st, 1, <<ptype, aliases[i]>>, <<ptype, f>>,
                          output_units),
         ptype, f, aliases, output_units, i + 1)

\* one known particle field: skipped unless (ptype, f) is on disk, else
\* registered as an on-disk field and aliased
known_particle_field(st, ptype, f, args, units, fl) ==
  IF <<ptype, f>> \notin Range(fl) THEN st
  ELSE particle_alias_loop(
         add_output_field(st, 1, <<ptype, f>>, "particle", units,
                          args.display_name),
         ptype, f, args.aliases,
         particle_output_units(ptype, f, args.aliases, units), 1)

\* the loop "for f, (units, aliases, dn) in sorted(known_particle_fields)"
RECURSIVE known_particle_loop(_, _, _, _, _, _)
known_particle_loop(st, ptype, known, i, fl, units_of) ==
  IF i > Len(known) THEN st
  ELSE known_particle_loop(
         known_particle_field(st, ptype, known[i].k, known[i].v,
                              dict_get(units_of, <<ptype, known[i].k>>,
                                       known[i].v.units),
                              fl),
         ptype, known, i + 1, fl, units_of)

\* a library field: registered through add_field without override, as a
\* particle field with a function of the library; not reached once the
\* call has raised
library_field(st, name, id) ==
  IF st.err # "none" THEN st
  ELSE add_field(st, 1, name, UserFunc(id), "particle", "", "None", FALSE,
                 FALSE)

\* particle_scalar_functions(ptype, "particle_position", ...): the
\* scalar-axis fields derived from the combined vector field, of which the
\* x axis stands for the three
particle_scalar_functions(st, ptype) ==
  library_field(st, <<ptype, "particle_position_x">>, "particle_scalar")

\* particle_vector_functions(ptype, [particle_position_x, ...], ...): the
\* combined vector field synthesized from the scalar-axis fields
particle_vector_functions(st, ptype) ==
  library_field(st, <<ptype, "particle_position">>, "particle_vector")

\* f"{ptype}_mass" for the particle types of the dataset
deposit_mass_name(ptype) == IF ptype = "io" THEN "io_mass" ELSE "all_mass"

\* particle_deposition_functions(ptype, "particle_position",
\* "particle_mass", registry): the mass-deposition field of the particle type
particle_deposition_functions(st, ptype) ==
  library_field(st, <<"deposit", deposit_mass_name(ptype)>>,
                "particle_deposit")

\* standard_particle_fields(registry, ptype): the standard particle fields,
\* of which particle_ones stands for all
standard_particle_fields(st, ptype) ==
  library_field(st, <<ptype, "particle_ones">>, "particle_standard")

\* the position fields: with no (ptype, "particle_position") on disk or
\* aliased, an on-disk definition of it is popped from the registry
\* (dict.pop raises KeyError for a key only a fallback holds)
position_fields(st, ptype, fl) ==
  LET pos == <<ptype, "particle_position">>
  IN IF pos \in Range(fl) \/ st.field_aliases[1][pos] # NoKey
     THEN particle_scalar_functions(st, ptype)
     ELSE IF contains(st.chain, 1, pos)
             /\ getitem(st.chain, 1, pos).val.function = NullFunc
     THEN IF DictHas(st.chain[1], pos)
          THEN particle_vector_functions(
                 [st EXCEPT !.chain[1] = DictPop(st.chain[1], pos)], ptype)
          ELSE [st EXCEPT !.err = "KeyError"]
     ELSE particle_vector_functions(st, ptype)

\* the loop over sorted(self.field_list) that registers the on-disk
\* particle fields nothing has registered yet
RECURSIVE leftover_loop(_, _, _, _)
leftover_loop(st, fields, i, units_of) ==
  IF st.err # "none" \/ i > Len(fields) THEN st
  ELSE leftover_loop(
         IF contains(st.chain, 1, fields[i]) THEN st
         ELSE IF ~IsTuple(fields[i]) THEN [st EXCEPT !.err = "RuntimeError"]
         ELSE IF fields[i][1] \notin particle_types THEN st
         ELSE add_output_field(st, 1, fields[i], "particle",
                               dict_get(units_of, fields[i], ""), "None"),
         fields, i + 1, units_of)

\* alias_name.startswith("particle_") for the names in play
starts_with_particle(alias_name) ==
  alias_name \in {"particle_mass", "particle_position", "particle_position_x",
                  "particle_ones"}

\* the name without its "particle_position_" or "particle_" part
uni_alias_name(alias_name) ==
  CASE alias_name = "particle_position_x" -> "x"
    [] alias_name = "particle_mass" -> "mass"
    [] alias_name = "particle_position" -> "position"
    [] alias_name = "particle_ones" -> "ones"
    [] OTHER -> alias_name

\* the loop "for alias, source in new_aliases"
RECURSIVE alias_all(_, _, _)
alias_all(st, new_aliases, i) ==
  IF i > Len(new_aliases) THEN st
  ELSE alias_all(alias(st, 1, new_aliases[i][1], new_aliases[i][2]),
                 new_aliases, i + 1)

\* the two aliases a particle field gets: under ftype and under ptype
smoothed_aliases(ptype, ftype, alias_name) ==
  << << <<ftype, uni_alias_name(alias_name)>>, <<ptype, alias_name>> >>,
     << <<ptype, uni_alias_name(alias_name)>>, <<ptype, alias_name>> >> >>

\* the loop "for ptype2, alias_name in list(self)": a key that does not
\* unpack raises ValueError; new_aliases grows, and all of it is aliased
\* again after every field that qualifies
RECURSIVE smoothed_loop(_, _, _, _, _, _)
smoothed_loop(st, listed, i, ptype, ftype, new_aliases) ==
  IF st.err # "none" \/ i > Len(listed) THEN st
  ELSE IF ~unpacks(listed[i])
  THEN [st EXCEPT !.err = "ValueError"]
  ELSE IF \/ ~IsTuple(listed[i])
          \/ listed[i][1] # ptype
          \/ /\ listed[i][2] \notin sph_whitelist_fields
             /\ ~starts_with_particle(listed[i][2])
  THEN smoothed_loop(st, listed, i + 1, ptype, ftype, new_aliases)
  ELSE smoothed_loop(
         alias_all(st, new_aliases
                         \o smoothed_aliases(ptype, ftype, listed[i][2]), 1),
         listed, i + 1, ptype, ftype,
         new_aliases \o smoothed_aliases(ptype, ftype, listed[i][2]))

\* FieldInfoContainer.setup_smoothed_fields
setup_smoothed_fields(st, ptype, ftype, sph) ==
  IF st.err # "none" THEN st
  ELSE IF ~contains(st.chain, 1, <<ptype, "density">>) \/ ~sph THEN st
  ELSE smoothed_loop(st, iter(st.chain, 1), 1, ptype, ftype, <<>>)

\* the part of setup_particle_fields before the on-disk leftovers
particle_catalog_fields(st, ptype, known, fl, units_of) ==
  standard_particle_fields(
    particle_deposition_functions(
      position_fields(
        known_particle_loop(Running(st), ptype, sorted_catalog(known), 1, fl,
                            units_of),
        ptype, fl),
      ptype),
    ptype)

\* FieldInfoContainer.setup_particle_fields(ptype, ftype) on the dataset's
\* registry
setup_particle_fields(st, ptype, ftype, known, fl, units_of, sph) ==
  setup_smoothed_fields(
    leftover_loop(particle_catalog_fields(st, ptype, known, fl, units_of),
                  sorted_field_list(fl), 1, units_of),
    ptype, ftype, sph)

\* the dataset's registry: setup_particle_fields(ptype), once the registry
\* is constructed and not twice in a row for a particle type
SetupParticleFields(ptype) ==
  \E out \in {setup_particle_fields([chain |-> chain,
                                     field_aliases |-> field_aliases],
                                    ptype, fluid_alias_ftype,
                                    known_particle_fields, field_list,
                                    field_units, sph_ptypes)} :
     /\ ret.op \in {"setup_fluid_aliases", "setup_particle_fields"}
     /\ ret.pick # ptype
     /\ nops < MaxOps
     /\ chain' = out.chain
     /\ field_aliases' = out.field_aliases
     /\ ret' = [NoRet EXCEPT !.op = "setup_particle_fields", !.r = 1,
                  !.err = out.err, !.pick = ptype]
     /\ nops' = nops + 1
     /\ UNCHANGED <<field_list, show_field_errors, field_test,
                    derived_field_list, config, field_dependencies, pending>>

NextSetup ==
  \/ SetupFluidAliases
  \/ \E ptype \in particle_types : SetupParticleFields(ptype)

SpecSetup == InitSetup /\ [][NextSetup]_vars

(* ===================== properties of the model ========================= *)

\* the last operation was a check_derived_fields that returned
Validated == ret.op = "check_derived_fields" /\ ret.err = "none"

\* the fields the last check_derived_fields checked exactly once
CheckedOnce(field) ==
  Cardinality({i \in 1..Len(ret.trace) : ret.trace[i].field = field}) = 1

\* what C1 asks of the i-th field checked
PrunedOrKept(i) ==
  LET field == ret.trace[i].field
      kind == ret.trace[i].kind
  IN /\ kind = "missing" =>
          /\ ~DictHas(chain[1], field)
          /\ field \in Range(ret.unavailable)
          /\ ~DictHas(ret.deps, field)
     /\ kind = "ok" =>
          /\ contains(chain, 1, field)
          /\ DictHas(ret.deps, field)

\* C1 as stated: after check_derived_fields returns, every checked field
\* whose requested set is not on disk is gone from the local map, is in the
\* unavailable list and is no key of the dependency map, and every checked
\* field whose requested set is on disk is registered and a key of the map.
C1_AsStated == Validated => \A i \in 1..Len(ret.trace) : PrunedOrKept(i)

\* C1 amended: the same, for every field that the call checks once (a
\* field listed twice can be pruned locally and then found, computable, in
\* a fallback registry: it is then both unavailable and a dependency key).
C1_PrunedOrKept ==
  Validated =>
    \A i \in 1..Len(ret.trace) :
      CheckedOnce(ret.trace[i].field) => PrunedOrKept(i)

\* C1 witness: a returned validation that pruned one field as unavailable
\* and kept another.
C1_Witness ==
  /\ Validated
  /\ \E i, j \in 1..Len(ret.trace) :
       /\ ret.trace[i].kind = "missing" /\ CheckedOnce(ret.trace[i].field)
       /\ ret.trace[j].kind = "ok" /\ CheckedOnce(ret.trace[j].field)

\* the identities the last, returned, check_derived_fields removed
Pruned ==
  {ret.trace[i].field : i \in {j \in 1..Len(ret.trace) : ret.trace[j].kind # "ok"}}

\* X is registered somewhere in the fallback chain of the dataset's registry
InFallback(X) == Len(chain) > 1 /\ contains(chain, 2, X)

\* C2 as stated: once check_derived_fields has pruned X, X is not contained
\* and its lookup fails with the not-found error, with or without fallbacks.
C2_AsStated ==
  Validated =>
    \A X \in Range(ret.unavailable) :
      ~contains(chain, 1, X) /\ getitem(chain, 1, X).err = "KeyError"

\* C2 amended: once check_derived_fields has pruned X, X is gone from the
\* registry's local map, so queries behave as for an identity that was never
\* registered there: not contained and not found when no fallback registry
\* holds X, and resolved by the fallback chain when one does.
C2_PrunedLikeUnregistered ==
  Validated =>
    \A X \in Pruned :
      /\ ~DictHas(chain[1], X)
      /\ contains(chain, 1, X) = InFallback(X)
      /\ getitem(chain, 1, X) =
           IF InFallback(X) THEN getitem(chain, 2, X)
           ELSE [err |-> "KeyError", key |-> X, val |-> NoDef]

\* C2 witness: a field pruned as unavailable that no fallback holds, in a
\* chain with a fallback registry.
C2_Witness ==
  /\ Validated /\ Len(chain) > 1
  /\ \E X \in Range(ret.unavailable) : ~InFallback(X)

\* C3: after a returned check_derived_fields with the default argument,
\* running it again returns an empty unavailable list, removes nothing and
\* gives a dependency map with the same keys and requested sets.
C3_Idempotent ==
  (Validated /\ ret.fields = <<>>) =>
    LET again == check_derived_fields(chain, derived_field_list, <<>>,
                                      field_list, show_field_errors, field_test)
    IN /\ again.err = "none"
       /\ again.unavailable = <<>>
       /\ again.chain = chain
       /\ again.deps = ret.deps

\* C3 witness: a default validation that pruned a field and kept another.
C3_Witness ==
  /\ Validated /\ ret.fields = <<>>
  /\ ret.unavailable # <<>> /\ ret.deps # <<>>
  /\ \E i \in 1..Len(ret.trace) : ret.trace[i].kind = "YTFieldNotFound"

\* C4 as stated: a checked field whose dependency discovery signals
\* field-not-found is removed, recorded in the unavailable list, and the
\* call does not raise.
C4_AsStated ==
  ret.op = "check_derived_fields" =>
    \A i \in 1..Len(ret.trace) :
      ret.trace[i].kind = "YTFieldNotFound" =>
        /\ ret.err = "none"
        /\ ~DictHas(chain[1], ret.trace[i].field)
        /\ ret.trace[i].field \in Range(ret.unavailable)

\* C5 as stated: when discovery raises another error, it propagates if the
\* field is in _show_field_errors or the dataset is a field-test dataset;
\* otherwise it is suppressed, the field is removed and the loop goes on.
C5_AsStated ==
  ret.op = "check_derived_fields" =>
    \A i \in 1..Len(ret.trace) :
      ret.trace[i].kind = "Exception" =>
        IF ret.trace[i].field \in show_field_errors \/ field_test
        THEN ret.err = "Exception" /\ i = Len(ret.trace)
        ELSE /\ ~DictHas(chain[1], ret.trace[i].field)
             /\ ret.err = "none" \/ i < Len(ret.trace)

(* ----------------------- lookup along the chain ------------------------ *)

\* C6: in every registry r of a chain, the lookup of an identity held in
\* r's local map returns r's definition, whatever the fallbacks hold; the
\* fallback's definition is returned only for an identity absent from r.
C6_Shadowing ==
  \A r \in 1..Len(chain), X \in Keys :
    LET got == getitem(chain, r, X)
    IN /\ DictHas(chain[r], X) =>
            got.err = "none" /\ got.val = DictGet(chain[r], X)
       /\ (r < Len(chain) /\ ~DictHas(chain[r], X) /\ DictHas(chain[r + 1], X)) =>
            got.err = "none" /\ got.val = DictGet(chain[r + 1], X)

\* C6 witness: an identity registered in the registry and in its fallback
\* with two different definitions.
C6_Witness ==
  /\ Len(chain) > 1
  /\ \E X \in Keys :
       /\ DictHas(chain[1], X) /\ DictHas(chain[2], X)
       /\ DictGet(chain[1], X) # DictGet(chain[2], X)

\* X is in the local map of registry r or of a registry further down
InChain(r, X) == \E j \in r..Len(chain) : DictHas(chain[j], X)

\* C7: lookup returns a definition iff contains (and has_key) is true, iff
\* the identity is in some local map of the chain; otherwise it fails with
\* the not-found error, which carries the identity.
C7_LookupIffContains ==
  \A r \in 1..Len(chain), X \in Keys \cup {GasM} :
    LET got == getitem(chain, r, X)
    IN /\ (got.err = "none") = contains(chain, r, X)
       /\ contains(chain, r, X) = InChain(r, X)
       /\ has_key(chain, r, X) = InChain(r, X)
       /\ InChain(r, X) => got.val # NoDef /\ got.key = X
       /\ ~InChain(r, X) => got = [err |-> "KeyError", key |-> X, val |-> NoDef]

\* C7 witness: one identity found only through the fallback, another one
\* registered nowhere in the chain.
C7_Witness ==
  /\ Len(chain) > 1
  /\ \E X, Y \in Keys :
       /\ ~DictHas(chain[1], X) /\ DictHas(chain[2], X)
       /\ ~InChain(1, Y)

\* the local keys of registry r and of every registry further down
RECURSIVE ChainKeys(_)
ChainKeys(r) ==
  IF r > Len(chain) THEN <<>> ELSE DictKeys(chain[r]) \o ChainKeys(r + 1)

\* C8 as stated: keys() and iteration both give the local identities and
\* then those of every registry down the chain, and give the same sequence.
C8_AsStated ==
  \A r \in 1..Len(chain) :
    /\ iter(chain, r) = ChainKeys(r)
    /\ keys(chain, r).err = "none"
    /\ keys(chain, r).val = iter(chain, r)

(* ------------------------------ registration --------------------------- *)

\* C9 as stated: registering an identity that is already registered is a
\* no-op without override (registry and alias map unchanged), and with
\* override the new definition is the one the identity resolves to.
C9_AsStated ==
  [][(ret'.op = "add_field" /\ nops' = nops + 1 /\ ret'.existed) =>
       IF ~ret'.override
       THEN chain' = chain /\ field_aliases' = field_aliases
       ELSE getitem(chain', ret'.r, ret'.name).val.function = ret'.function]_vars

\* the last operation registered a bare name and took effect
BareRegistered ==
  /\ ret.op = "add_field" /\ ~IsTuple(ret.name)
  /\ ~ret.existed \/ ret.override

\* the identity a bare registration is qualified to
Qualified ==
  IF SamplingLower(ret.sampling_type) = "particle"
  THEN <<"all", ret.name[1]>> ELSE <<default_fluid_type, ret.name[1]>>

\* C10 as stated: every bare registration that takes effect stores the
\* function under the qualified identity and leaves the bare name
\* registered, with the alias map recording bare name -> qualified identity.
C10_AsStated ==
  BareRegistered =>
    /\ getitem(chain, ret.r, Qualified).val.function = ret.function
    /\ contains(chain, ret.r, ret.name)
    /\ field_aliases[ret.r][ret.name] = Qualified

\* C10 amended: that holds when the qualified identity was not registered
\* yet (in the registry or its fallbacks), and the bare name is then the
\* translation of the qualified identity unless it was registered before;
\* when the qualified identity was registered already, the function is
\* stored under the bare name itself.
C10_AutoQualified ==
  BareRegistered =>
    LET loc == chain[ret.r]
        stype == SamplingLower(ret.sampling_type)
    IN IF ~ret.qualified
       THEN /\ DictHas(loc, Qualified)
            /\ DictGet(loc, Qualified) =
                 DerivedField(Qualified, stype, ret.function, "", "None")
            /\ contains(chain, ret.r, ret.name)
            /\ field_aliases[ret.r][ret.name] = Qualified
            /\ ~ret.existed =>
                 /\ DictHas(loc, ret.name)
                 /\ DictGet(loc, ret.name).function = TranslationFunc(Qualified)
       ELSE /\ DictHas(loc, ret.name)
            /\ DictGet(loc, ret.name) =
                 DerivedField(ret.name, stype, ret.function, "", "None")

\* C10 witness: a particle-sampled bare registration that was qualified to
\* the "all" category and aliased.
C10_Witness ==
  /\ BareRegistered /\ ~ret.qualified /\ ~ret.existed
  /\ ret.sampling_type = "particle"
  /\ DictHas(chain[ret.r], AllA)
  /\ field_aliases[ret.r][BareA] = AllA

(* -------------------------------- aliasing ----------------------------- *)

\* C11: alias(a, s) with s absent from the registry and from its whole
\* fallback chain changes nothing: the local maps of the registry and of
\* its fallbacks and the alias maps are what they were.
C11_AliasAbsentSourceNoOp ==
  [][(ret'.op = "alias" /\ nops' = nops + 1
      /\ ~contains(chain, ret'.r, ret'.function.src)) =>
       chain' = chain /\ field_aliases' = field_aliases]_vars

\* C11 witness: an alias call whose source is registered nowhere in a chain
\* with a fallback registry, on an alias identity that is not registered.
C11_Witness ==
  /\ ret.op = "alias" /\ Len(chain) > 1
  /\ ~InChain(1, ret.function.src)
  /\ ~InChain(1, ret.name)
  /\ field_aliases[1][ret.name] = NoKey

\* the last operation was alias(a, s) with s registered in the chain
AliasedPresent == ret.op = "alias" /\ contains(chain, ret.r, ret.function.src)

\* C12 as stated: after alias(a, s) with s registered in the registry or
\* its fallback chain, the lookup of a gives the translation of s with s's
\* sampling type and display name, and the alias map records a -> s.
C12_AsStated ==
  AliasedPresent =>
    LET a == ret.name
        s == ret.function.src
        got == getitem(chain, ret.r, a)
        src == getitem(chain, ret.r, s)
    IN /\ got.err = "none"
       /\ got.val.function = TranslationFunc(s)
       /\ got.val.sampling_type = src.val.sampling_type
       /\ got.val.display_name = src.val.display_name
       /\ field_aliases[ret.r][a] = s

(* ----------------------- the published field list ---------------------- *)

\* the sort key the published list is ordered by: (category, name), a bare
\* name taking the category "?"
PublishedKey(x) == IF Len(x) = 2 THEN x ELSE <<"?", x[1]>>

\* C15: a check_derived_fields that returns leaves a derived_field_list
\* without duplicates, holding exactly what was published before and the
\* keys of the returned dependency map, in strictly increasing order of
\* (category, name) with bare names under the category "?".
C15_PublishedSorted ==
  [][(ret'.op = "check_derived_fields" /\ nops' = nops + 1
      /\ ret'.err = "none") =>
       LET dfl == derived_field_list'
       IN /\ \A i, j \in 1..Len(dfl) : i # j => dfl[i] # dfl[j]
          /\ Range(dfl) = Range(derived_field_list)
                            \cup Range(DictKeys(ret'.deps))
          /\ \A i, j \in 1..Len(dfl) :
               i < j => TupleLess(PublishedKey(dfl[i]), PublishedKey(dfl[j]))]_vars

\* C15 witness: a returned validation whose list holds a bare name, tupled
\* identities, and an identity published by an earlier validation only.
C15_Witness ==
  /\ Validated
  /\ BareA \in Range(derived_field_list)
  /\ Len(derived_field_list) >= 3
  /\ \E x \in Range(derived_field_list) : ~DictHas(ret.deps, x)

(* ------------------------------ fluid setup ---------------------------- *)

\* the registry has just been constructed
Constructed == ret.op = "setup_fluid_aliases"

\* the on-disk fields that are not of a particle type
OnDiskFluid == {f \in Range(field_list) : f[1] \notin particle_types}

\* the aliases the catalog declares for the on-disk fluid fields
DeclaredAliases ==
  UNION {Range(dict_get(known_other_fields, f[2], NoArgs).aliases) :
           f \in OnDiskFluid}

\* the name C13 gives a declared alias: renamed to the axis name when the
\* dataset is curvilinear, the alias ends in _x, _y or _z and all three
\* siblings are declared; the alias itself otherwise
GatedName(al) ==
  IF /\ curvilinear
     /\ Suffix2(al) \in {"_x", "_y", "_z"}
     /\ \A sfx \in {"x", "y", "z"} : WithSuffix(Stem(al), sfx) \in DeclaredAliases
  THEN CASE Suffix2(al) = "_x" -> WithSuffix(Stem(al), "r")
         [] Suffix2(al) = "_y" -> WithSuffix(Stem(al), "theta")
         [] Suffix2(al) = "_z" -> WithSuffix(Stem(al), "phi")
  ELSE al

\* C13 as stated: after fluid setup every declared alias of an on-disk
\* fluid field is registered under its gated name: renamed only on a
\* curvilinear dataset with the complete triple declared, and registered
\* unconverted, with nothing under the renamed identity, otherwise.
C13_AsStated ==
  Constructed =>
    \A f \in OnDiskFluid :
      \A al \in Range(dict_get(known_other_fields, f[2], NoArgs).aliases) :
        /\ field_aliases[1][<<"gas", GatedName(al)>>] = f
        /\ \A n \in {"foo_r", "foo_theta", "foo_phi"} :
             (\A other \in DeclaredAliases : GatedName(other) # n) =>
               ~DictHas(chain[1], <<"gas", n>>)

\* the units C14 expects for field f when the override keyed by first is
\* asked before the one keyed by second, before the catalog
UnitsByPrecedence(f, first, second) ==
  LET catalog_units == dict_get(known_other_fields, f[2], NoArgs).units
      chosen == IF DictHas(field_units, first) THEN DictGet(field_units, first)
                ELSE IF DictHas(field_units, second)
                THEN DictGet(field_units, second)
                ELSE catalog_units
  IN IF ~IsNumeric(chosen) THEN chosen
     ELSE IF catalog_units = "" THEN ""
     ELSE CombinedUnits(catalog_units, chosen)

\* C14 as stated: the units of an on-disk fluid field are the override
\* keyed by its bare name, else the override keyed by its identity, else
\* the catalog's units.
C14_AsStated ==
  Constructed =>
    \A f \in OnDiskFluid :
      DictGet(chain[1], f).units = UnitsByPrecedence(f, <<f[2]>>, f)

\* C14 amended: the units of an on-disk fluid field are the override keyed
\* by its full identity, else the override keyed by its bare name, else the
\* catalog's units; with both overrides the one keyed by identity decides.
C14_IdentityOverrideWins ==
  Constructed =>
    \A f \in OnDiskFluid :
      /\ DictHas(chain[1], f)
      /\ DictGet(chain[1], f).units = UnitsByPrecedence(f, f, <<f[2]>>)

\* C14 witness: an on-disk field of the catalog with both overrides given.
C14_Witness ==
  /\ Constructed
  /\ GasD \in Range(field_list)
  /\ DictHas(known_other_fields, "d")
  /\ DictHas(field_units, <<"d">>) /\ DictHas(field_units, GasD)
  /\ DictGet(field_units, <<"d">>) # DictGet(field_units, GasD)
  /\ DictGet(chain[1], GasD).units = "erg"

\* C20: after construction every on-disk field that is not of a particle
\* type is registered in the registry with NullFunc as its function, and
\* no on-disk field of a particle type is registered.
C20_OnDiskPassthrough ==
  Constructed =>
    \A f \in Range(field_list) :
      IF f[1] \in particle_types
      THEN ~DictHas(chain[1], f)
      ELSE DictHas(chain[1], f) /\ DictGet(chain[1], f).function = NullFunc

\* C20 witness: a constructed registry whose on-disk list holds a field of
\* the catalog, a field the catalog does not know, a particle field, and a
\* field with the identity of a declared alias of another on-disk field.
C20_Witness ==
  /\ Constructed
  /\ {GasA, GasD, GasE, IoD} \subseteq Range(field_list)
  /\ DictHas(known_other_fields, "d")
  /\ field_aliases[1][GasE] = GasD
  /\ field_aliases[1][GasA] = GasD

(* ------------------------------ plugin loader -------------------------- *)

\* the registration orders of the routines that are registered
Perms(seq) == {q \in [1..Len(seq) -> Range(seq)] : Range(q) = Range(seq)}

\* load_all_plugins from the current state with the routines registered in
\* the order other and the set difference iterated in the order set_order
LoadedWith(other, set_order) ==
  load_all_plugins([chain |-> chain, field_aliases |-> field_aliases],
                   derived_field_list, field_dependencies, other, set_order,
                   field_list, show_field_errors, field_test)

\* this step is a call of load_all_plugins
LoadStep == ret'.op = "load_all_plugins" /\ nops' = nops + 1

\* C16 as stated: a run of load_all_plugins with the same named routines
\* registered in another order ends with the same definition maps, alias
\* maps and published derived-field list.
C16_AsStated ==
  [][LoadStep =>
       \A other \in Perms(field_plugins), set_order \in SetOrders :
         LET run == LoadedWith(other, set_order)
         IN /\ run.chain = chain'
            /\ run.field_aliases = field_aliases'
            /\ run.derived_field_list = derived_field_list']_vars

\* C17 as stated: with an empty strict set and no field-test flag,
\* load_all_plugins returns without raising and no field that failed its
\* check is left in the registry.
C17_AsStated ==
  (ret.op = "load_all_plugins" /\ show_field_errors = {} /\ ~field_test) =>
    /\ ret.err = "none"
    /\ \A i \in 1..Len(ret.trace) :
         ret.trace[i].kind # "ok" => ~DictHas(chain[1], ret.trace[i].field)

\* C18 as stated: load_all_plugins validates only the identities its
\* routines introduced or redefined, so a field that was registered before
\* the call and that no routine touched is still registered after it, with
\* the definition it had.
C18_AsStated ==
  [][LoadStep =>
       \A X \in AllIds :
         (DictHas(chain[1], X) /\ X \notin Range(ret'.loaded)) =>
           /\ DictHas(chain'[1], X)
           /\ DictGet(chain'[1], X) = DictGet(chain[1], X)]_vars

(* --------------------------- deferred registration --------------------- *)

\* C19 as stated: add_field without a function changes neither the
\* registry nor the alias map; calling the closure it returned leaves the
\* registry and the alias map as the direct add_field call with the same
\* name, function, sampling type and override would, for tuples and bare
\* names; and the closure registers nothing when the name was registered
\* and override was not set.
C19_AsStated ==
  [][/\ ret'.op = "add_field_deferred" =>
          chain' = chain /\ field_aliases' = field_aliases
     /\ ret'.op = "create_function" /\ pending.kind # "none" =>
          LET now == [chain |-> chain, field_aliases |-> field_aliases]
              direct == add_field(now, pending.r, pending.name, ret'.function,
                                  pending.sampling_type, "", "None",
                                  pending.override, FALSE)
          IN /\ chain' = direct.chain
             /\ field_aliases' = direct.field_aliases
             /\ pending.kind = "identity" =>
                  chain' = chain /\ field_aliases' = field_aliases]_vars

(* ------------------------- alias map and definitions ------------------- *)

\* C22 as stated: in every registry, every identity the alias map records
\* is registered in the local map and its definition is the translation of
\* the source the alias map records for it.
C22_AsStated ==
  \A r \in 1..Len(chain), a \in AllIds :
    field_aliases[r][a] # NoKey =>
      /\ DictHas(chain[r], a)
      /\ DictGet(chain[r], a).function = TranslationFunc(field_aliases[r][a])

(* --------------------- published fields stay registered ---------------- *)

\* C23 as stated: every identity in the dataset's published derived-field
\* list and every key of the dataset's persisted dependency map is
\* registered in the dataset's registry.
C23_AsStated ==
  \A x \in Range(derived_field_list) \cup Range(DictKeys(field_dependencies)) :
    contains(chain, 1, x)

(* --------------------------- index-field aliases ----------------------- *)

\* setup_fluid_index_fields returned
IndexAliased(r) == r.op = "setup_fluid_index_fields" /\ r.err = "none"

\* the fluid categories of the dataset other than "index" and "deposit"
AliasedTypes == Range(fluid_types) \ {"index", "deposit"}

\* C21: when setup_fluid_index_fields returns, (t, f) is registered for
\* every name f registered under "index" and every fluid category t of the
\* dataset other than "index" and "deposit"; a (t, f) that was registered
\* before has the definition it had; and no registry holds an identity of
\* the "deposit" category that it did not hold before.
C21_IndexFieldsAliased ==
  [][IndexAliased(ret') =>
       /\ \A t \in AliasedTypes, f \in IndexNames :
            /\ contains(chain', 1, <<"index", f>>)
                 => contains(chain', 1, <<t, f>>)
            /\ contains(chain, 1, <<t, f>>)
                 => getitem(chain', 1, <<t, f>>) = getitem(chain, 1, <<t, f>>)
       /\ \A r \in 1..Len(chain), f \in IndexNames :
            DictHas(chain'[r], <<"deposit", f>>)
              = DictHas(chain[r], <<"deposit", f>>)]_vars

\* index fields were aliased for a dataset with the categories "gas",
\* "deposit", "index" and "enzo": ("gas","dx") was registered before and
\* kept its own function, ("enzo","dx") is new and translates ("index","dx")
C21_Witness ==
  /\ IndexAliased(ret)
  /\ "enzo" \in Range(fluid_types)
  /\ DictHas(chain[1], <<"index", "dx">>)
  /\ DictHas(chain[1], <<"gas", "dx">>)
  /\ DictGet(chain[1], <<"gas", "dx">>).function = UserFunc("f_miss")
  /\ DictHas(chain[1], <<"enzo", "dx">>)
  /\ DictGet(chain[1], <<"enzo", "dx">>).function
       = TranslationFunc(<<"index", "dx">>)
  /\ field_aliases[1][<<"enzo", "dx">>] = <<"index", "dx">>
  /\ ~contains(chain, 1, <<"deposit", "dx">>)

====
